---- MODULE Spec2Model ----
(***************************************************************************)
(* A model of src/src/connectors/base_connectors.py: the BaseConnector's   *)
(* sliding-window rate limiter, its retried request, and its two           *)
(* paginators (offset and cursor).                                         *)
(*                                                                         *)
(* Time is a discrete clock (time.time() read as a whole number of ticks). *)
(* A JSON value is a tagged record: [t |-> "list", v |-> <<...>>],         *)
(* [t |-> "dict", v |-> a record], [t |-> "str", v |-> "..."],             *)
(* [t |-> "int", v |-> n], [t |-> "none"].                                 *)
(***************************************************************************)
EXTENDS Integers, Sequences, FiniteSets, TLC

VARIABLES
    config,     \* self.config: rate_limit_calls, rate_limit_period, max_retries
    time,       \* the clock time.time() reads
    calls,      \* self._rate_limit_calls
    accepted,   \* history: every timestamp _rate_limit_check ever recorded
    slept,      \* history: the sleep the last _rate_limit_check asked for
    sent,       \* history: the clock value of every session.request call
    req,        \* the last get() issued on its own and how it ended
    args,       \* the arguments the caller gives to every paginator it creates
    backend,    \* what the server has answered to each page request so far
    shared,     \* the params mapping object of the caller, when it passes one
    gens,       \* the paginator generators created on the connector, in order
    held,       \* how many records the server holds, None when it answers freely
    call,       \* a call of a helper (or of the URL join) and its result
    session,    \* self.session: how often close() was called on it
    scope,      \* the `with` blocks the connector is in, and what the caller did
    threads     \* the threads inside _rate_limit_check, each with its locals

vars == <<config, time, calls, accepted, slept, sent, req, args, backend, shared, gens,
          held, call, session, scope, threads>>

(***************************************************************************)
(* Bounds of the model.                                                    *)
(***************************************************************************)
MaxTime == 6
MaxLag == 1
MaxQuota == 2
MaxWindow == 3
MaxRetries == 4
MaxSent == 3
MaxFetch == 4
MaxPagesArg == 2
MaxOps == 5
MaxAdmits == 8
MaxStarts == 3

Range(s) == {s[i] : i \in DOMAIN s}

\* F applied to the value of x, which is computed once
Apply(F(_), x) == CHOOSE r \in {F(value) : value \in {x}} : TRUE

(***************************************************************************)
(* JSON values and what Python does with them                              *)
(***************************************************************************)
None == [t |-> "none"]
Absent == [t |-> "absent"]      \* a key that a mapping does not hold
JInt(n) == [t |-> "int", v |-> n]
JStr(x) == [t |-> "str", v |-> x]
JList(x) == [t |-> "list", v |-> x]
JDict(r) == [t |-> "dict", v |-> r]
\* The body of a response that is no JSON
Undecodable == [t |-> "undecodable"]

\* bool(v): what `if v` and `not v` test
Truthy(v) ==
    CASE v.t = "none" -> FALSE
      [] v.t = "int" -> v.v # 0
      [] v.t = "str" -> v.v # ""
      [] v.t = "list" -> v.v # <<>>
      [] v.t = "dict" -> DOMAIN v.v # {}
      [] OTHER -> FALSE

\* Whether len(v) is defined (it raises TypeError on None and on a number)
Sized(v) == v.t \in {"list", "dict"}

\* len(v) of a list or a mapping
PyLen(v) == IF v.t = "list" THEN Len(v.v) ELSE Cardinality(DOMAIN v.v)

\* An extraction that looks under 'results' before 'data'
ExtractResultsFirst(data) ==
    IF data.t = "list" THEN data
    ELSE IF data.t = "dict" /\ "results" \in DOMAIN data.v THEN data.v["results"]
    ELSE IF data.t = "dict" /\ "data" \in DOMAIN data.v THEN data.v["data"]
    ELSE IF data.t = "dict" /\ "items" \in DOMAIN data.v THEN data.v["items"]
    ELSE JList(<<data>>)

\* Lines 269-278
_extract_records_from_response(data) ==
    IF data.t = "list" THEN data
    ELSE IF data.t = "dict" /\ "data" \in DOMAIN data.v THEN data.v["data"]
    ELSE IF data.t = "dict" /\ "results" \in DOMAIN data.v THEN data.v["results"]
    ELSE IF data.t = "dict" /\ "items" \in DOMAIN data.v THEN data.v["items"]
    ELSE JList(<<data>>)

\* dict.get(key): the value under key, None when the key is missing
DictGet(value, key) == IF key \in DOMAIN value.v THEN value.v[key] ELSE None

\* Lines 286-293; path is the dotted path already split on '.'
RECURSIVE Walk(_, _)
\* A walk that stops at a value that is no mapping and returns it
WalkBreaks(value, keys) ==
    IF keys = <<>> THEN value
    ELSE IF value.t = "dict" THEN Walk(DictGet(value, Head(keys)), Tail(keys))
    ELSE value

Walk(value, keys) ==
    IF keys = <<>> THEN value
    ELSE IF value.t = "dict" THEN Walk(DictGet(value, Head(keys)), Tail(keys))
    ELSE None

_get_nested_value(data, path) == Walk(data, path)

(***************************************************************************)
(* _rate_limit_check                                                       *)
(***************************************************************************)

\* min(self._rate_limit_calls)
MinOf(c) == CHOOSE m \in Range(c) : \A x \in Range(c) : m <= x

\* A window cut that keeps a call exactly one period old.
KeepClosed(call_time, now, period) == now - call_time <= period

\* The condition of line 94
Keep(call_time, now, period) == now - call_time < period

\* the list comprehension of lines 92-95
Prune(c, now, period) == SelectSeq(c, LAMBDA call_time : Keep(call_time, now, period))

\* line 100
SleepTime(c, now, period) == period - (now - MinOf(c))

\* Whether the limit is hit (line 98)
LimitHit(c, quota) == Len(c) >= quota

\* Lines 98-103: the sleep the call asks for, given the pruned list
AskedSleep(pruned, now, quota, period) ==
    IF LimitHit(pruned, quota) /\ SleepTime(pruned, now, period) > 0
    THEN SleepTime(pruned, now, period)
    ELSE 0

\* Line 106, at clock value t1: self._rate_limit_calls.append(time.time())
Record(pruned, acc, t1, asked) ==
    [raised |-> FALSE, calls |-> Append(pruned, t1), accepted |-> Append(acc, t1),
     time |-> t1, slept |-> asked]

\* Lines 98-106, given the pruned list that line 92 has stored. min() of an
\* empty list raises ValueError: the call then ends at line 99.
AfterPrune(pruned, acc, now, quota, period, lag) ==
    IF LimitHit(pruned, quota) /\ pruned = <<>>
    THEN [raised |-> TRUE, calls |-> pruned, accepted |-> acc, time |-> now,
          slept |-> 0]
    ELSE Record(pruned, acc, now + AskedSleep(pruned, now, quota, period) + lag,
                AskedSleep(pruned, now, quota, period))

\* One whole call of _rate_limit_check started at clock value now. lag is the
\* time that passes during the call beyond the sleep it asks for (a sleep
\* lasts at least the requested duration; the second time.time() of line 106
\* is read after the first one of line 90).
_rate_limit_check(c, acc, now, quota, period, lag) ==
    Apply(LAMBDA pruned : AfterPrune(pruned, acc, now, quota, period, lag),
          Prune(c, now, period))

(***************************************************************************)
(* _make_request: the retried request                                      *)
(***************************************************************************)
\* @retry(stop=stop_after_attempt(3), wait=wait_exponential(multiplier=1,
\*        min=2, max=10), reraise=True)
StopAfterAttempt == 3
WaitMultiplier == 1
WaitMin == 2
WaitMax == 10

Max(a, b) == IF a >= b THEN a ELSE b
Min(a, b) == IF a <= b THEN a ELSE b

\* wait_exponential: the delay slept after failed attempt n (n from 1)
\* A delay that is not clamped from below
WaitUnclamped(n) == Min(WaitMultiplier * 2 ^ (n - 1), WaitMax)

wait_exponential(n) == Max(WaitMin, Min(WaitMultiplier * 2 ^ (n - 1), WaitMax))

\* What one attempt meets: 0 is a transport error (session.request raises a
\* RequestException), any other number is the HTTP status of the response.
TransportError == 0
Statuses == {200, 304, 500}
Outcomes == {TransportError} \cup Statuses

\* response.raise_for_status() raises HTTPError for a 4xx or 5xx status only.
RaiseForStatus(status) == 400 <= status /\ status < 600

\* Lines 130-142: whether the attempt that meets outcome o raises.
AttemptRaises(o) == o = TransportError \/ RaiseForStatus(o)

\* The exception an attempt that meets outcome o raises.
ErrorOf(o) == IF o = TransportError THEN "ConnectionError" ELSE "HTTPError"

\* The connector's state as one record, for the operators that thread it.
Conn(c, acc, t, sl, sn) ==
    [calls |-> c, accepted |-> acc, time |-> t, slept |-> sl, sent |-> sn]

\* The connector state s with the outcome r of a _rate_limit_check call
Admitted(s, r) ==
    [raised |-> r.raised,
     conn |-> [s EXCEPT !.calls = r.calls, !.accepted = r.accepted,
                        !.time = r.time, !.slept = r.slept]]

\* A request that is admitted on its first attempt only: retries bypass
\* the limiter.
AdmissionFirstOnly(s, n, cfg, lag) ==
    IF n > 1 THEN [raised |-> FALSE, conn |-> s]
    ELSE Admitted(s, _rate_limit_check(s.calls, s.accepted, s.time,
                                       cfg.rate_limit_calls, cfg.rate_limit_period, lag))

\* Line 128 of attempt n: self._rate_limit_check(), on the connector state s.
Admission(s, n, cfg, lag) ==
    Apply(LAMBDA r : Admitted(s, r),
          _rate_limit_check(s.calls, s.accepted, s.time, cfg.rate_limit_calls,
                            cfg.rate_limit_period, lag))

\* Whether tenacity stops after attempt n has failed (stop_after_attempt(3)).
StopNow(n, cfg) == n >= StopAfterAttempt

\* Lines 131-136: session.request is called, at the clock value the
\* admission ended at, unless the admission itself raised.
Send(a) == IF a.raised THEN a.conn ELSE [a.conn EXCEPT !.sent = Append(@, a.conn.time)]

\* How a call of _make_request ends: "returned" with the status of the
\* response, or "raised" with the error of the last attempt (reraise=True
\* re-raises it as it is), after n attempts and the backoff delays waits.
Returned(s, status, n, waits) ==
    [state |-> "returned", status |-> status, error |-> "", n |-> n,
     waits |-> waits, conn |-> s]

Raised(s, error, n, waits) ==
    [state |-> "raised", status |-> 0, error |-> error, n |-> n,
     waits |-> waits, conn |-> s]

\* time.sleep of the backoff delay d between two attempts
Backoff(s, d) == [s EXCEPT !.time = @ + d]

\* Attempt n of _make_request and, if it fails and tenacity retries, the
\* attempts after it. outs[n] is what attempt n meets and lags[n] the time
\* that passes during its admission. AfterAdmission is the attempt from line
\* 130 on, a being the outcome of its admission.
RECURSIVE Attempt(_, _, _, _, _, _)
AfterAdmission(a, n, outs, lags, cfg, waits) ==
    IF ~a.raised /\ ~AttemptRaises(outs[n])
    THEN Returned(Send(a), outs[n], n, waits)
    ELSE IF StopNow(n, cfg)
    THEN Raised(Send(a), IF a.raised THEN "ValueError" ELSE ErrorOf(outs[n]), n, waits)
    ELSE Attempt(Backoff(Send(a), wait_exponential(n)), n + 1, outs, lags, cfg,
                 Append(waits, wait_exponential(n)))

Attempt(s, n, outs, lags, cfg, waits) ==
    Apply(LAMBDA a : AfterAdmission(a, n, outs, lags, cfg, waits),
          Admission(s, n, cfg, lags[n]))

_make_request(s, outs, lags, cfg) == Attempt(s, 1, outs, lags, cfg, <<>>)

\* Line 148: response.json() of the response r that _make_request returned
Json(r, body) ==
    IF r.state = "returned" /\ body = Undecodable
    THEN [state |-> "raised", status |-> r.status, error |-> "JSONDecodeError",
          n |-> r.n, waits |-> r.waits, conn |-> r.conn, value |-> Undecodable]
    ELSE [state |-> r.state, status |-> r.status, error |-> r.error,
          n |-> r.n, waits |-> r.waits, conn |-> r.conn,
          value |-> IF r.state = "returned" THEN body ELSE Undecodable]

\* get: _make_request, then response.json(), which raises on a body that is
\* no JSON. The result is that of _make_request with the decoded value.
get(s, outs, lags, cfg, body) ==
    Apply(LAMBDA r : Json(r, body), _make_request(s, outs, lags, cfg))

(***************************************************************************)
(* The rate limiter on its own: a caller that calls _rate_limit_check      *)
(* again and again, one call at a time, while the clock runs.              *)
(***************************************************************************)
NoReq == [state |-> "idle"]
NoArgs == [kind |-> "none"]

\* A params mapping that holds none of the keys the model follows: 'limit',
\* 'offset', the key cursor_param names, and one more key of the caller's.
EmptyParams == [limit |-> Absent, offset |-> Absent, cursor |-> Absent, other |-> Absent]

\* No helper has been called.
NoCall == [fn |-> "none"]

\* Line 47: the session of a connector just built
NewSession == [closes |-> 0]

\* The connector is used outside any `with` block, by one thread, against a
\* server that answers freely.
Aside ==
    /\ held = None
    /\ call = NoCall
    /\ session = NewSession
    /\ scope = <<>>
    /\ threads = <<>>

InitRL ==
    /\ config \in [rate_limit_calls : 1..MaxQuota, rate_limit_period : 1..MaxWindow,
                   max_retries : {3}]
    /\ time = 0
    /\ calls = <<>>
    /\ accepted = <<>>
    /\ slept = 0
    /\ sent = <<>>
    /\ req = NoReq
    /\ args = NoArgs
    /\ backend = {}
    /\ shared = EmptyParams
    /\ gens = <<>>
    /\ Aside

Tick ==
    /\ time < MaxTime
    /\ time' = time + 1
    /\ UNCHANGED <<held, call, session, scope, threads, config, calls, accepted, slept, sent, req, args, backend, shared, gens>>

\* The connector's variables take the values of the connector state s.
Store(s) ==
    /\ calls' = s.calls
    /\ accepted' = s.accepted
    /\ time' = s.time
    /\ slept' = s.slept
    /\ sent' = s.sent

AdmitEnds(r) ==
    /\ r.time <= MaxTime
    /\ Len(accepted) < MaxAdmits
    /\ calls' = r.calls
    /\ accepted' = r.accepted
    /\ time' = r.time
    /\ slept' = r.slept
    /\ call' = [fn |-> "_rate_limit_check", raised |-> r.raised]
    /\ UNCHANGED <<held, session, scope, threads, config, sent, req, args, backend, shared, gens>>

Admit ==
    \E lag \in 0..MaxLag :
        AdmitEnds(_rate_limit_check(calls, accepted, time, config.rate_limit_calls,
                                    config.rate_limit_period, lag))

NextRL == Tick \/ Admit

SpecRL == InitRL /\ [][NextRL]_vars

\* Number of recorded timestamps in the window (e - period, e]
InWindow(acc, e, period) ==
    Cardinality({i \in DOMAIN acc : e - period < acc[i] /\ acc[i] <= e})

\* C1: with quota >= 1 and period > 0, for sequential _rate_limit_check calls
\* no sliding window of length rate_limit_period (the window (e - w, e], which
\* is how line 94 cuts it: a call exactly w old is outside) ever holds more
\* than rate_limit_calls recorded timestamps.
C1_WindowBound ==
    (config.rate_limit_calls >= 1 /\ config.rate_limit_period > 0) =>
        \A e \in 0..(MaxTime + MaxWindow) :
            InWindow(accepted, e, config.rate_limit_period) <= config.rate_limit_calls

\* C1 witness: a call found the quota used up, slept, and was recorded only
\* once the oldest call had left the window.
C1_Witness ==
    /\ slept > 0
    /\ Len(accepted) > config.rate_limit_calls
    /\ InWindow(accepted, time, config.rate_limit_period) = config.rate_limit_calls

(***************************************************************************)
(* Requests on their own: a caller that issues get() calls one after the   *)
(* other. Each get meets a script of outcomes, outs[n] for attempt n,      *)
(* whether or not the code gets as far as attempt n.                       *)
(***************************************************************************)
ScriptLen == StopAfterAttempt + 1

\* What attempt i meets under script outs: every attempt after the script's
\* last entry meets what that entry says.
Meets(outs, i) == outs[Min(i, ScriptLen)]

SomeJson == JList(<<JInt(1)>>)

\* The rate limits the requests are run under: (calls, period)
ReqLimits == {<<1, 3>>, <<2, 1>>}

InitReq ==
    /\ \E l \in ReqLimits, m \in 1..MaxRetries :
         config = [rate_limit_calls |-> l[1], rate_limit_period |-> l[2],
                   max_retries |-> m]
    /\ time = 0
    /\ calls = <<>>
    /\ accepted = <<>>
    /\ slept = 0
    /\ sent = <<>>
    /\ req = NoReq
    /\ args = NoArgs
    /\ backend = {}
    /\ shared = EmptyParams
    /\ gens = <<>>
    /\ Aside

GetEnds(r, outs, body) ==
    /\ Store(r.conn)
    /\ req' = [state |-> r.state, status |-> r.status, error |-> r.error,
               n |-> r.n, waits |-> r.waits, value |-> r.value,
               outs |-> outs, body |-> body]
    /\ UNCHANGED <<held, call, session, scope, threads, config, args, backend, shared, gens>>

\* A caller calls get(), as long as fewer than MaxSent attempts have been
\* sent on the connector; only lag, the time that passes in each admission,
\* the outcomes and the body are the environment's.
Get ==
    /\ req = NoReq
    /\ Len(sent) < MaxSent
    /\ \E outs \in [1..ScriptLen -> Outcomes], lag \in 0..MaxLag,
          body \in {SomeJson, Undecodable} :
        GetEnds(get(Conn(calls, accepted, time, slept, sent), outs,
                    [i \in 1..StopAfterAttempt |-> lag], config, body), outs, body)

\* The caller has taken the result (or caught the exception) of its get().
Taken ==
    /\ req # NoReq
    /\ req' = NoReq
    /\ UNCHANGED <<held, call, session, scope, threads, config, time, calls, accepted, slept, sent, args, backend, shared, gens>>

NextReq == Get \/ Taken

SpecReq == InitReq /\ [][NextReq]_vars

\* C2: a request whose every attempt fails is attempted exactly
\* config.max_retries times and then raises the error of the final attempt.
C2_AttemptsAreMaxRetries ==
    (/\ req.state # "idle"
     /\ \A i \in 1..config.max_retries : AttemptRaises(Meets(req.outs, i)))
    => /\ req.state = "raised"
       /\ req.n = config.max_retries
       /\ req.error = ErrorOf(Meets(req.outs, config.max_retries))

\* C3: for every k < config.max_retries, a request whose first k attempts
\* fail and whose attempt k+1 gets a 2xx response returns that response
\* after exactly k+1 attempts and raises nothing.
C3_SuccessAfterKFailures ==
    \A k \in 0..(config.max_retries - 1) :
        (/\ req.state # "idle"
         /\ \A i \in 1..k : AttemptRaises(Meets(req.outs, i))
         /\ Meets(req.outs, k + 1) \in 200..299
         /\ req.body # Undecodable)
        => /\ req.state = "returned"
           /\ req.n = k + 1
           /\ req.status = Meets(req.outs, k + 1)

\* C4: every HTTP attempt, retries included, comes right after one admission
\* of its own: as many timestamps are recorded as attempts are sent, attempt
\* i is sent no earlier than the i-th admission recorded its timestamp and
\* before the next admission.
C4_AdmissionPerAttempt ==
    /\ Len(accepted) = Len(sent)
    /\ \A i \in DOMAIN sent :
        /\ i \in DOMAIN accepted => accepted[i] <= sent[i]
        /\ (i + 1) \in DOMAIN accepted => sent[i] <= accepted[i + 1]

\* C4 witness: a request that was retried twice and then answered.
C4_Witness ==
    /\ req.state = "returned"
    /\ req.n = StopAfterAttempt
    /\ Len(sent) >= StopAfterAttempt
    /\ Len(accepted) = Len(sent)

(***************************************************************************)
(* paginate_offset and paginate_cursor                                     *)
(*                                                                         *)
(* A generator is a record: its arguments (kind, limit, max_pages), where  *)
(* kwargs['params'] lives (mode "shared": it is the caller's mapping       *)
(* object, the variable shared; mode "own": it is a mapping of the         *)
(* generator's own, the field own), its locals (offset, page, cursor,      *)
(* records, data), its position pc ("new": created, body not started;      *)
(* "yield": suspended at its yield; "loop": at the top of the while loop;  *)
(* "done": returned; "error": an exception left it) and two histories:     *)
(* pages, the pages it yielded, and fetches, the get() calls it made.      *)
(***************************************************************************)
DefaultLimit == 100
CursorPath == <<"next_cursor">>

NewGen(a) ==
    [kind |-> a.kind, limit |-> a.limit, max_pages |-> a.max_pages, mode |-> a.mode,
     own |-> a.params, pc |-> "new", offset |-> 0, page |-> 0, cursor |-> None,
     records |-> None, data |-> None, pages |-> <<>>, fetches |-> <<>>]

\* An except clause that catches the errors of the request only
CatchesRequestErrors(error) == error \in {"ConnectionError", "HTTPError"}

\* `except Exception` of lines 201 and 254: whether the paginator catches
\* the exception raised inside its try block.
Catches(error) == TRUE

\* The paginator after an exception in its try block: `break`.
Thrown(gn, error) == [gn EXCEPT !.pc = IF Catches(error) THEN "done" ELSE "error"]

\* A stop on a page that is not longer than limit
ShortOrFullPage(records, limit) == PyLen(records) <= limit

\* A paginator without the short-page stop
NeverShort(records, limit) == FALSE

\* Line 195 stops on a page shorter than limit.
ShortPage(records, limit) == PyLen(records) < limit

\* Lines 195-199, run when the offset generator is resumed after its yield
ResumeOffset(gn) ==
    IF ~Sized(gn.records) THEN Thrown(gn, "TypeError")
    ELSE IF ShortPage(gn.records, gn.limit) THEN [gn EXCEPT !.pc = "done"]
    ELSE [gn EXCEPT !.offset = @ + gn.limit, !.page = @ + 1, !.pc = "loop"]

\* Lines 248-252, cursor being the value line 248 has looked up
WithCursor(gn, cursor) ==
    IF ~Truthy(cursor) THEN [gn EXCEPT !.cursor = cursor, !.pc = "done"]
    ELSE [gn EXCEPT !.cursor = cursor, !.page = @ + 1, !.pc = "loop"]

ResumeCursor(gn) == WithCursor(gn, _get_nested_value(gn.data, CursorPath))

\* next() on a generator runs the body from where it stands.
Resume(gn) ==
    IF gn.pc = "new" THEN [gn EXCEPT !.pc = "loop"]
    ELSE IF gn.kind = "offset" THEN ResumeOffset(gn)
    ELSE ResumeCursor(gn)

\* Lines 179 and 230: `max_pages and page >= max_pages`
MaxPagesReached(max_pages, page) == Truthy(max_pages) /\ page >= max_pages.v

LoopTop(gn) ==
    IF gn.pc = "loop" /\ MaxPagesReached(gn.max_pages, gn.page)
    THEN [gn EXCEPT !.pc = "done"]
    ELSE gn

\* Lines 182 and 233: kwargs.get('params', {})
ParamsOf(gn, sh) == IF gn.mode = "shared" THEN sh ELSE gn.own

\* An update that keeps a limit and an offset the caller supplied
UpdateOffsetKeeps(params, gn) ==
    [params EXCEPT !.limit = IF @ = Absent THEN JInt(gn.limit) ELSE @,
                   !.offset = IF @ = Absent THEN JInt(gn.offset) ELSE @]

\* Line 183: params.update({'limit': limit, 'offset': offset})
UpdateOffset(params, gn) ==
    [params EXCEPT !.limit = JInt(gn.limit), !.offset = JInt(gn.offset)]

\* A request that never carries the cursor
UpdateCursorNever(params, gn) == params

\* Lines 234-235: if cursor: params[cursor_param] = cursor
UpdateCursor(params, gn) ==
    IF Truthy(gn.cursor) THEN [params EXCEPT !.cursor = gn.cursor] ELSE params

Update(params, gn) ==
    IF gn.kind = "offset" THEN UpdateOffset(params, gn) ELSE UpdateCursor(params, gn)

\* Lines 190-193 and 242-245: an empty result ends the run, any other is
\* yielded.
Extracted(gn, data, records) ==
    IF ~Truthy(records) THEN [gn EXCEPT !.pc = "done"]
    ELSE [gn EXCEPT !.pc = "yield", !.records = records, !.data = data,
                    !.pages = Append(@, records)]

\* Lines 186-193 and 238-245, r being how get() ended
Fetched(gn, r) ==
    IF r.state = "raised" THEN Thrown(gn, r.error)
    ELSE Extracted(gn, r.value, _extract_records_from_response(r.value))

\* Whether the get() that ended as r got a body from the server
Answered(r) == r.state = "returned" \/ r.error = "JSONDecodeError"

\* The generator with the get() it made written into its history, and with
\* the mapping it wrote into, when that is its own
Logged(gn, params, r) ==
    [gn EXCEPT !.own = IF gn.mode = "own" THEN params ELSE @,
               !.fetches = Append(@, [params |-> params, state |-> r.state,
                                      error |-> r.error, value |-> r.value,
                                      answered |-> Answered(r)])]

(***************************************************************************)
(* The server. It answers a request by its parameters, and the same        *)
(* request always with the same body: backend holds the answers given.     *)
(***************************************************************************)
Limits == {2, DefaultLimit}
Cursors == {"c1", "c2"}

\* A record, and the records a page of size n at offset o holds
Rec(id) == JDict([id |-> JInt(id)])
RecordsFrom(o, n) == [i \in 1..n |-> Rec(o + i)]

\* Page sizes a server may answer to limit: nothing, a short page, a full one
PageSizes(limit) == {0, IF limit = DefaultLimit THEN 40 ELSE limit - 1, limit}

OffsetBodies(params) ==
    {JDict([data |-> JList(RecordsFrom(params.offset.v, n))]) : n \in PageSizes(params.limit.v)}

\* The one record of the page a cursor leads to
PageId(cursor) == IF cursor = Absent THEN 1 ELSE IF cursor = JStr("c1") THEN 2 ELSE 3

PagesAt(cursor) == {JList(<<>>), JList(<<Rec(PageId(cursor))>>)}

CursorBodies(params) ==
    {JDict([data |-> page]) : page \in PagesAt(params.cursor)}
    \cup {JDict([data |-> page, next_cursor |-> JStr(c)]) :
            page \in PagesAt(params.cursor), c \in Cursors}

Known(b, params) == \E e \in b : e.params = params

Answers(b, kind, params) ==
    IF Known(b, params) THEN {e.body : e \in {x \in b : x.params = params}}
    ELSE {Undecodable} \cup
         (IF kind = "offset" THEN OffsetBodies(params) ELSE CursorBodies(params))

\* The page a server that holds n records and honours limit and offset
\* answers: the records offset+1 .. min(offset+limit, n)
HeldPage(n, params) ==
    JDict([data |-> JList(RecordsFrom(params.offset.v,
                                      Max(0, Min(params.limit.v, n - params.offset.v))))])

\* The bodies the server may answer a request with
Serves(b, h, kind, params) ==
    IF h = None THEN Answers(b, kind, params) ELSE {HeldPage(h.v, params)}

\* What the attempts of one page request meet: an answer at once, an answer
\* after a failure and a retry, or failures only
PageScripts == {<<200, 200, 200>>, <<500, 200, 200>>, <<0, 500, 500>>}

NoLag == [i \in 1..StopAfterAttempt |-> 0]

(***************************************************************************)
(* The paginators run one after the other: a caller creates a generator    *)
(* with its arguments, pulls it to its end, and creates the next with the  *)
(* same arguments.                                                         *)
(***************************************************************************)
\* The runs of a caller that runs the same extraction twice
Runs == {1, 2}

MaxPagesArgs == {None} \cup {JInt(n) : n \in 0..MaxPagesArg}

\* What the caller's params may hold under 'limit' and 'offset'
Supplied == {Absent, JInt(7)}

OffsetArgs ==
    {[kind |-> "offset", limit |-> l, max_pages |-> m, mode |-> md,
      params |-> [EmptyParams EXCEPT !.other = JStr("x"), !.limit = c, !.offset = c]] :
        l \in Limits, m \in MaxPagesArgs, md \in {"own", "shared"}, c \in Supplied}

CursorArgs ==
    {[kind |-> "cursor", limit |-> 0, max_pages |-> m, mode |-> md,
      params |-> [EmptyParams EXCEPT !.other = JStr("x"), !.cursor = c]] :
        m \in MaxPagesArgs, md \in {"own", "shared"}, c \in {Absent, JStr("c2")}}

InitPag ==
    /\ config = [rate_limit_calls |-> 2, rate_limit_period |-> 3, max_retries |-> 3]
    /\ time = 0
    /\ calls = <<>>
    /\ accepted = <<>>
    /\ slept = 0
    /\ sent = <<>>
    /\ req = NoReq
    /\ args \in OffsetArgs \cup CursorArgs
    /\ backend = {}
    /\ shared = args.params
    /\ gens = <<>>
    /\ Aside

\* paginate_offset(...) or paginate_cursor(...) is called: a generator is
\* created, and nothing of its body runs yet.
Create ==
    /\ Len(gens) + 1 \in Runs
    /\ IF gens = <<>> THEN TRUE ELSE gens[Len(gens)].pc \in {"done", "error"}
    /\ gens' = Append(gens, NewGen(args))
    /\ UNCHANGED <<held, call, session, scope, threads, config, time, calls, accepted, slept, sent, req, args, backend, shared>>

\* The generator returns (or an exception leaves it) without a request.
Ends(g, gn) ==
    /\ gens' = [gens EXCEPT ![g] = gn]
    /\ UNCHANGED <<held, call, session, scope, threads, config, time, calls, accepted, slept, sent, req, args, backend, shared>>

\* The request of lines 187 and 239 has ended as r: the generator yields its
\* page or returns.
FetchEnds(g, gn, params, r, body) ==
    /\ Store(r.conn)
    /\ shared' = IF gn.mode = "shared" THEN params ELSE shared
    /\ backend' = IF Answered(r) THEN backend \cup {[params |-> params, body |-> body]}
                  ELSE backend
    /\ gens' = [gens EXCEPT ![g] = Fetched(Logged(gn, params, r), r)]
    /\ UNCHANGED <<held, call, session, scope, threads, config, req, args>>

\* Lines 182-187 and 233-239: the mapping is written, the request made.
Fetch(g, gn, params) ==
    /\ Len(gn.fetches) < MaxFetch
    /\ \E outs \in PageScripts, body \in Serves(backend, held, gn.kind, params) :
         \E r \in {get(Conn(calls, accepted, time, slept, sent), outs, NoLag, config, body)} :
             FetchEnds(g, gn, params, r, body)

PullFrom(g, gn) ==
    IF gn.pc = "loop" THEN Fetch(g, gn, Update(ParamsOf(gn, shared), gn))
    ELSE Ends(g, gn)

\* next(generator): the body runs from where it stands to its next yield or
\* to its end.
Pull ==
    \E g \in DOMAIN gens :
        /\ gens[g].pc \in {"new", "yield"}
        /\ PullFrom(g, LoopTop(Resume(gens[g])))

NextPag == Create \/ Pull

SpecPag == InitPag /\ [][NextPag]_vars

(***************************************************************************)
(* What the histories of a generator say                                   *)
(***************************************************************************)
RecordsOf(f) == _extract_records_from_response(f.value)

\* A get() that returned a non-empty result
Yielding(f) == f.state = "returned" /\ Truthy(RecordsOf(f))

\* The pages of the fetches fs that returned a non-empty result, in order
RECURSIVE PagesOf(_)
PagesOf(fs) ==
    IF fs = <<>> THEN <<>>
    ELSE IF Yielding(Head(fs)) THEN <<RecordsOf(Head(fs))>> \o PagesOf(Tail(fs))
    ELSE PagesOf(Tail(fs))

Last(x) == x[Len(x)]
NoneRaised(fs) == \A i \in DOMAIN fs : fs[i].state = "returned"
SizesOf(pages) == [i \in DOMAIN pages |-> PyLen(pages[i])]
IdsOf(page) == [i \in DOMAIN page.v |-> page.v[i].v.id.v]
NextOf(f) == _get_nested_value(f.value, CursorPath)

\* The server has answered offset o (limit l) with a page of n records
Served(l, o, n) ==
    \E e \in backend :
        /\ e.params.limit = JInt(l) /\ e.params.offset = JInt(o)
        /\ e.body = JDict([data |-> JList(RecordsFrom(o, n))])

C5_Stops(gn) ==
    /\ gn.pages = PagesOf(gn.fetches)
    /\ \A i \in 1..(Len(gn.fetches) - 1) :
         Yielding(gn.fetches[i]) /\ PyLen(RecordsOf(gn.fetches[i])) >= gn.limit
    /\ (gn.pc = "done" /\ gn.fetches # <<>> /\ Yielding(Last(gn.fetches)))
         => PyLen(RecordsOf(Last(gn.fetches))) < gn.limit
    /\ gn.pc = "done" => gn.fetches # <<>>

C5_Examples(gn) ==
    /\ (/\ gn.limit = 100 /\ gn.pc = "done" /\ NoneRaised(gn.fetches)
        /\ Served(100, 0, 100) /\ Served(100, 100, 100) /\ Served(100, 200, 40))
       => SizesOf(gn.pages) = <<100, 100, 40>> /\ Len(gn.fetches) = 3
    /\ (/\ gn.limit = 2 /\ gn.pc = "done" /\ NoneRaised(gn.fetches)
        /\ Served(2, 0, 2) /\ Served(2, 2, 1))
       => /\ Len(gn.pages) = 2 /\ Len(gn.fetches) = 2
          /\ IdsOf(gn.pages[1]) = <<1, 2>> /\ IdsOf(gn.pages[2]) = <<3>>

\* C5: with max_pages unset, offset pagination yields one page per get()
\* that returned a non-empty result, in order; every get() but the last
\* returned a full page (so no request follows an empty or a short page);
\* it ends, after a page, only after a short one; and a server answering
\* pages of 100, 100 and 40 records to limit=100 gives exactly 3 pages in 3
\* requests, one answering ids 1,2 then id 3 to limit=2 exactly those 2 pages.
C5_OffsetStopsAtShortPage ==
    \A g \in DOMAIN gens :
        (gens[g].kind = "offset" /\ gens[g].max_pages = None)
        => C5_Stops(gens[g]) /\ C5_Examples(gens[g])

\* C5 witness: a finished run over pages of 100, 100 and 40 records
C5_Witness ==
    \E g \in DOMAIN gens :
        /\ gens[g].kind = "offset" /\ gens[g].max_pages = None /\ gens[g].pc = "done"
        /\ gens[g].limit = 100
        /\ SizesOf(gens[g].pages) = <<100, 100, 40>>
        /\ Len(gens[g].fetches) = 3

\* C6: for both paginators and every max_pages >= 0 that is set, neither the
\* pages yielded nor the page requests issued exceed max_pages.
C6_MaxPagesBounds ==
    \A g \in DOMAIN gens :
        gens[g].max_pages.t = "int"
        => /\ Len(gens[g].pages) <= gens[g].max_pages.v
           /\ Len(gens[g].fetches) <= gens[g].max_pages.v

C7_Chain(gn) ==
    /\ \A i \in 2..Len(gn.fetches) :
         /\ Yielding(gn.fetches[i - 1])
         /\ Truthy(NextOf(gn.fetches[i - 1]))
         /\ gn.fetches[i].params.cursor = NextOf(gn.fetches[i - 1])
    /\ gn.pages = PagesOf(gn.fetches)
    /\ (gn.pc = "done" /\ gn.fetches # <<>> /\ Yielding(Last(gn.fetches))
        /\ ~MaxPagesReached(gn.max_pages, Len(gn.pages)))
         => ~Truthy(NextOf(Last(gn.fetches)))

C7_Example(gn) ==
    (/\ gn.pc = "done"
     /\ Len(gn.fetches) >= 3
     /\ \A i \in 1..3 : Yielding(gn.fetches[i])
     /\ NextOf(gn.fetches[1]) = JStr("c1")
     /\ NextOf(gn.fetches[2]) = JStr("c2")
     /\ NextOf(gn.fetches[3]) = None)
    => Len(gn.fetches) = 3 /\ Len(gn.pages) = 3

\* C7: in cursor pagination every request after the first carries the
\* (truthy) cursor the previous response returned, a page is yielded for
\* every non-empty response, also for the one without a next cursor, and no
\* request follows that one; responses with cursors c1, c2, absent give
\* exactly 3 pages in 3 requests.
C7_CursorChain ==
    \A g \in DOMAIN gens :
        gens[g].kind = "cursor" => C7_Chain(gens[g]) /\ C7_Example(gens[g])

\* C7 witness: a finished run whose responses carried c1, c2 and no cursor
C7_Witness ==
    \E g \in DOMAIN gens :
        /\ gens[g].kind = "cursor" /\ gens[g].pc = "done"
        /\ Len(gens[g].fetches) = 3 /\ Len(gens[g].pages) = 3
        /\ NextOf(gens[g].fetches[1]) = JStr("c1")
        /\ NextOf(gens[g].fetches[2]) = JStr("c2")
        /\ NextOf(gens[g].fetches[3]) = None
        /\ gens[g].fetches[2].params.cursor = JStr("c1")
        /\ gens[g].fetches[3].params.cursor = JStr("c2")

\* C8: the first request of every paginate_cursor run carries no cursor
\* parameter but the one the caller put into params, also in a second run
\* that is passed the same params mapping object.
C8_FirstRequestWithoutCursor ==
    \A g \in DOMAIN gens :
        (gens[g].kind = "cursor" /\ gens[g].fetches # <<>>)
        => gens[g].fetches[1].params.cursor = args.params.cursor

ParamsSent(gn) == [i \in DOMAIN gn.fetches |-> gn.fetches[i].params]
AllAnswered(gn) == \A i \in DOMAIN gn.fetches : gn.fetches[i].answered

\* C9: two runs of a paginator to its end, on the same connector with the
\* same arguments and a server that answers the same request the same way,
\* yield the same pages and issue the same requests.
C9_Idempotent ==
    (/\ Len(gens) >= 2
     /\ gens[1].pc = "done" /\ gens[2].pc = "done"
     /\ AllAnswered(gens[1]) /\ AllAnswered(gens[2]))
    => /\ gens[1].pages = gens[2].pages
       /\ ParamsSent(gens[1]) = ParamsSent(gens[2])

\* C10: a get() that raises (after its retries, or on a body that is no
\* JSON) is the last request of its run: the run is over, no page is
\* yielded for it, the pages yielded before it stay as they were, and no
\* exception leaves the generator.
C10_FailureEndsRun ==
    \A g \in DOMAIN gens :
        /\ gens[g].pc # "error"
        /\ \A i \in DOMAIN gens[g].fetches :
             gens[g].fetches[i].state = "raised"
             => /\ i = Len(gens[g].fetches)
                /\ gens[g].pc = "done"
                /\ gens[g].pages = PagesOf(SubSeq(gens[g].fetches, 1, i - 1))

\* C10 witness: runs that yielded a page and then ended on a failed get(),
\* one on exhausted retries, one on a body that is no JSON
C10_Witness ==
    /\ Len(gens) = 2
    /\ \A g \in DOMAIN gens :
         /\ gens[g].pc = "done" /\ Len(gens[g].pages) = 1 /\ Len(gens[g].fetches) = 2
         /\ gens[g].fetches[2].state = "raised"
    /\ gens[1].fetches[2].error = "JSONDecodeError"
    /\ gens[2].fetches[2].error \in {"ConnectionError", "HTTPError"}

(***************************************************************************)
(* The helpers called on their own: _extract_records_from_response,        *)
(* _get_nested_value and the URL that get() and post() build.              *)
(*                                                                         *)
(* A dotted path is the sequence of its segments, which is what            *)
(* path.split('.') gives: 'a.b' is <<"a", "b">>, '' is <<"">>, 'a..b' is   *)
(* <<"a", "", "b">>; split never gives an empty sequence. A URL is a       *)
(* sequence of characters.                                                 *)
(***************************************************************************)
\* A mapping that holds the keys ks, each with the value vals gives it
DictOf(ks, vals) == JDict([k \in ks |-> vals[k]])

RecordKeys == {"data", "results", "items", "x"}

\* The value a response may hold under each key: a list of its own, or null
UnderKey(k) ==
    {None,
     CASE k = "data" -> JList(<<JInt(1)>>)
       [] k = "results" -> JList(<<JInt(2)>>)
       [] k = "items" -> JList(<<JInt(3)>>)
       [] OTHER -> JInt(1)}

Responses ==
    {None, JInt(0), JStr("s"), JList(<<>>), JList(<<JInt(1), JInt(2), JInt(3)>>)}
    \cup UNION {{DictOf(ks, vals) : vals \in [ks -> UNION {UnderKey(k) : k \in ks}]} :
                    ks \in SUBSET RecordKeys}

Leaves == {None, JStr("c"), JInt(0)}
PathKeys == {"a", "b"}
Flat == UNION {{DictOf(ks, vals) : vals \in [ks -> Leaves]} : ks \in SUBSET PathKeys}
Nested ==
    UNION {{DictOf(ks, vals) : vals \in [ks -> Leaves \cup Flat]} : ks \in SUBSET PathKeys}

Segments == PathKeys \cup {""}
Paths == UNION {[1..n -> Segments] : n \in 1..2}

\* Characters: one of the address, one of the path, and the slash
Strings(alphabet, n) == UNION {[1..k -> alphabet] : k \in 0..n}
BaseUrls == {<<"h">> \o x : x \in Strings({"h", "/"}, 2)}
Endpoints == Strings({"p", "/"}, 3)

\* endpoint.lstrip('/')
RECURSIVE LStrip(_)
LStrip(x) == IF x # <<>> /\ Head(x) = "/" THEN LStrip(Tail(x)) ELSE x

\* Lines 146 and 152: f"{self.config.base_url}/{endpoint.lstrip('/')}"
Url(base_url, endpoint) == base_url \o <<"/">> \o LStrip(endpoint)

InitFn ==
    /\ config = [rate_limit_calls |-> 60, rate_limit_period |-> 60, max_retries |-> 3]
    /\ time = 0
    /\ calls = <<>>
    /\ accepted = <<>>
    /\ slept = 0
    /\ sent = <<>>
    /\ req = NoReq
    /\ args = NoArgs
    /\ backend = {}
    /\ shared = EmptyParams
    /\ gens = <<>>
    /\ held = None
    /\ session = NewSession
    /\ scope = <<>>
    /\ threads = <<>>
    /\ call \in {[fn |-> "_extract_records_from_response", data |-> d, done |-> FALSE,
                  result |-> None] : d \in Responses}
           \cup {[fn |-> "_get_nested_value", data |-> d, path |-> p, done |-> FALSE,
                  result |-> None] : d \in Nested \cup Leaves \cup {JList(<<>>)}, p \in Paths}
           \cup {[fn |-> f, base_url |-> b, endpoint |-> e, done |-> FALSE,
                  result |-> <<>>] : f \in {"get", "post"}, b \in BaseUrls, e \in Endpoints}

Ran(result) ==
    /\ ~call.done
    /\ call' = [call EXCEPT !.done = TRUE, !.result = result]
    /\ UNCHANGED <<held, session, scope, threads, config, time, calls, accepted, slept,
                   sent, req, args, backend, shared, gens>>

Extract ==
    /\ call.fn = "_extract_records_from_response"
    /\ Ran(_extract_records_from_response(call.data))

Lookup ==
    /\ call.fn = "_get_nested_value"
    /\ Ran(_get_nested_value(call.data, call.path))

Join ==
    /\ call.fn \in {"get", "post"}
    /\ Ran(Url(call.base_url, call.endpoint))

NextFn == Extract \/ Lookup \/ Join

SpecFn == InitFn /\ [][NextFn]_vars

Has(data, k) == data.t = "dict" /\ k \in DOMAIN data.v

C11_Precedence(data, out) ==
    /\ data.t = "list" => out = data
    /\ Has(data, "data") => out = data.v.data
    /\ (Has(data, "results") /\ ~Has(data, "data")) => out = data.v.results
    /\ (Has(data, "items") /\ ~Has(data, "data") /\ ~Has(data, "results"))
         => out = data.v.items
    /\ (data.t # "list" /\ \A k \in {"data", "results", "items"} : ~Has(data, k))
         => out = JList(<<data>>)

C11_Examples(data, out) ==
    /\ data = JList(<<JInt(1), JInt(2), JInt(3)>>) => out = data
    /\ data = JDict([data |-> JList(<<JInt(1)>>)]) => out = JList(<<JInt(1)>>)
    /\ data = JDict([results |-> JList(<<JInt(2)>>)]) => out = JList(<<JInt(2)>>)
    /\ data = JDict([x |-> JInt(1)]) => out = JList(<<JDict([x |-> JInt(1)])>>)

\* C11: _extract_records_from_response returns a list as it is, else the
\* value of a mapping under 'data', else under 'results', else under 'items'
\* (the first of these keys that is present, whatever the others hold), else
\* the whole response as a one-element list; and the spec's four examples.
C11_ExtractPrecedence ==
    (call.fn = "_extract_records_from_response" /\ call.done)
    => C11_Precedence(call.data, call.result) /\ C11_Examples(call.data, call.result)

\* C11 witness: a mapping holding all three keys gave the value under 'data'.
C11_Witness ==
    /\ call.fn = "_extract_records_from_response" /\ call.done
    /\ Has(call.data, "data") /\ Has(call.data, "results") /\ Has(call.data, "items")
    /\ call.data.v.data = JList(<<JInt(1)>>)
    /\ call.data.v.results = JList(<<JInt(2)>>)
    /\ call.result = JList(<<JInt(1)>>)

\* The value n segments down the path, Absent when a segment on the way is
\* missing or leads through a value that is no mapping
RECURSIVE Reached(_, _, _)
Reached(data, path, n) ==
    IF n = 0 THEN data
    ELSE IF Has(Reached(data, path, n - 1), path[n])
         THEN Reached(data, path, n - 1).v[path[n]]
         ELSE Absent

C12_Examples(data, path, out) ==
    path = <<"a", "b">> =>
        /\ data = JDict([a |-> JDict([b |-> JStr("c")])]) => out = JStr("c")
        /\ data = JDict([a |-> JDict(<<>>)]) => out = None
        /\ data = JDict(<<>>) => out = None

\* C12: _get_nested_value returns the value at the end of the path when
\* every segment is a key of the mapping reached so far, and None (never an
\* exception) when a segment is missing or the value reached is no mapping;
\* ({'a': {'b': 'c'}}, 'a.b') gives 'c', ({'a': {}}, 'a.b') and ({}, 'a.b')
\* give None.
C12_NestedValue ==
    (call.fn = "_get_nested_value" /\ call.done)
    => /\ call.result = IF Reached(call.data, call.path, Len(call.path)) = Absent THEN None
                        ELSE Reached(call.data, call.path, Len(call.path))
       /\ C12_Examples(call.data, call.path, call.result)

\* C12 witness: a walk that met a string where it needed a mapping.
C12_Witness ==
    /\ call.fn = "_get_nested_value" /\ call.done
    /\ call.path = <<"a", "b">>
    /\ call.data = JDict([a |-> JStr("c"), b |-> JStr("c")])
    /\ call.result = None

\* x without its trailing slashes
RECURSIVE RStrip(_)
RStrip(x) == IF x # <<>> /\ x[Len(x)] = "/" THEN RStrip(SubSeq(x, 1, Len(x) - 1)) ELSE x

\* C13: the URL get() and post() request is the base address, one '/', and
\* the endpoint path, whatever slashes base_url ends with and endpoint
\* starts with.
C13_SingleSlash ==
    (call.fn \in {"get", "post"} /\ call.done)
    => call.result = RStrip(call.base_url) \o <<"/">> \o LStrip(call.endpoint)

(***************************************************************************)
(* close, __enter__ and __exit__                                           *)
(*                                                                         *)
(* scope is the history of what the caller did with the connector: it      *)
(* entered a `with` block, left one (its body having ended normally, with  *)
(* a failure it handled, or with an exception that leaves the block), or   *)
(* called close(). session counts the calls of self.session.close().       *)
(***************************************************************************)
Bodies == {"normal", "handled", "propagated"}

Entries(h) == Cardinality({i \in DOMAIN h : h[i].op = "enter"})
Exits(h) == Cardinality({i \in DOMAIN h : h[i].op = "exit"})

\* The `with` blocks the connector is in
Depth(h) == Entries(h) - Exits(h)

\* Line 297: self.session.close()
close(sess) == [sess EXCEPT !.closes = @ + 1]

\* Lines 303-305: close(), and None is returned, so that an exception of
\* the body goes on to the caller.
__exit__(sess, body) == [session |-> close(sess), raised |-> body = "propagated"]

InitScope ==
    /\ config = [rate_limit_calls |-> 60, rate_limit_period |-> 60, max_retries |-> 3]
    /\ time = 0
    /\ calls = <<>>
    /\ accepted = <<>>
    /\ slept = 0
    /\ sent = <<>>
    /\ req = NoReq
    /\ args = NoArgs
    /\ backend = {}
    /\ shared = EmptyParams
    /\ gens = <<>>
    /\ Aside

Did(event, sess) ==
    /\ scope' = Append(scope, event)
    /\ session' = sess
    /\ UNCHANGED <<held, call, threads, config, time, calls, accepted, slept, sent, req,
                   args, backend, shared, gens>>

\* Lines 299-301: `with connector:` is entered; __enter__ returns self.
Enter ==
    /\ Len(scope) < MaxOps
    /\ Did([op |-> "enter"], session)

\* The body of the innermost `with` block ends, and __exit__ runs.
Exit ==
    /\ Len(scope) < MaxOps
    /\ Depth(scope) > 0
    /\ \E body \in Bodies :
         Did([op |-> "exit", body |-> body, raised |-> __exit__(session, body).raised],
             __exit__(session, body).session)

\* The caller calls close().
Close ==
    /\ Len(scope) < MaxOps
    /\ Did([op |-> "close"], close(session))

NextScope == Enter \/ Exit \/ Close

SpecScope == InitScope /\ [][NextScope]_vars

\* C14: the session is closed at most once whatever close() calls and scope
\* exits happen, and it has been closed once a `with` block was left,
\* however its body ended.
C14_ReleasedOnce ==
    /\ session.closes <= 1
    /\ Exits(scope) > 0 => session.closes >= 1

(***************************************************************************)
(* The rate limiter under every configuration ConnectorConfig accepts:     *)
(* rate_limit_calls and rate_limit_period are declared `int` (lines 30-31) *)
(* with no validator, so zero and negative values are accepted.            *)
(***************************************************************************)
InitCfg ==
    /\ config \in [rate_limit_calls : (-1)..MaxQuota, rate_limit_period : (-1)..MaxWindow,
                   max_retries : {3}]
    /\ time = 0
    /\ calls = <<>>
    /\ accepted = <<>>
    /\ slept = 0
    /\ sent = <<>>
    /\ req = NoReq
    /\ args = NoArgs
    /\ backend = {}
    /\ shared = EmptyParams
    /\ gens = <<>>
    /\ Aside

SpecCfg == InitCfg /\ [][NextRL]_vars

\* C15: under every configuration the class accepts, no _rate_limit_check
\* call raises, and none sleeps longer than one rate_limit_period.
C15_NeverRaises ==
    call.fn = "_rate_limit_check"
    => ~call.raised /\ slept <= Max(config.rate_limit_period, 0)

C16_Request(gn, i) ==
    /\ gn.fetches[i].params.limit = JInt(gn.limit)
    /\ gn.fetches[i].params.offset = JInt((i - 1) * gn.limit)
    /\ gn.fetches[i].params.other = args.params.other
    /\ gn.fetches[i].params.cursor = args.params.cursor

\* C16: in offset pagination offset = page * limit at every moment, starting
\* from offset = 0 and page = 0, and the n-th request (n counted from 0)
\* carries limit and offset = n * limit as integers, whatever the caller's
\* params held under those two keys, next to the caller's other parameters.
C16_OffsetParams ==
    \A g \in DOMAIN gens :
        gens[g].kind = "offset"
        => /\ gens[g].offset = gens[g].page * gens[g].limit
           /\ gens[g].pc = "new" => gens[g].offset = 0 /\ gens[g].page = 0
           /\ \A i \in DOMAIN gens[g].fetches : C16_Request(gens[g], i)

\* C16 witness: a third request, with offset 2 * limit, of a run whose caller
\* supplied a limit and an offset of its own
C16_Witness ==
    \E g \in DOMAIN gens :
        /\ gens[g].kind = "offset" /\ args.params.limit = JInt(7)
        /\ Len(gens[g].fetches) >= 3
        /\ gens[g].fetches[3].params.offset = JInt(2 * gens[g].limit)
        /\ gens[g].page = 2

\* multiplier * 2^(n-1) clamped to [min, max], for multiplier 1, min 2, max 10
C17_Delay(n) ==
    IF 2 ^ (n - 1) < 2 THEN 2 ELSE IF 2 ^ (n - 1) > 10 THEN 10 ELSE 2 ^ (n - 1)

\* C17: the delay slept after failed attempt n of a request is
\* 1 * 2^(n-1) clamped to [2, 10]; the delays of one request never decrease
\* and never exceed 10; and there is one delay between two attempts and none
\* after the last one.
C17_Backoff ==
    req # NoReq
    => /\ Len(req.waits) = req.n - 1
       /\ \A i \in DOMAIN req.waits :
            /\ req.waits[i] = C17_Delay(i)
            /\ req.waits[i] <= 10
            /\ i > 1 => req.waits[i - 1] <= req.waits[i]

\* C17 witness: a request that failed on all its attempts and slept between
\* them, and not after the last
C17_Witness ==
    /\ req # NoReq
    /\ req.state = "raised" /\ req.n = 3 /\ req.waits = <<2, 2>>

(***************************************************************************)
(* paginate_offset against a server that holds a finite number of records  *)
(* and honours limit and offset. The consumer keeps pulling (a `for` loop  *)
(* over the generator), which is the fairness of SpecFin.                  *)
(***************************************************************************)
FinLimits == {1, 2, 3}

\* The server holds few enough records for a run to end within MaxFetch
\* requests even at limit = 1.
HeldCounts == 0..(MaxFetch - 1)

InitFin ==
    /\ config = [rate_limit_calls |-> 2, rate_limit_period |-> 3, max_retries |-> 3]
    /\ time = 0
    /\ calls = <<>>
    /\ accepted = <<>>
    /\ slept = 0
    /\ sent = <<>>
    /\ req = NoReq
    /\ args \in {[kind |-> "offset", limit |-> l, max_pages |-> None, mode |-> md,
                  params |-> [EmptyParams EXCEPT !.other = JStr("x")]] :
                    l \in FinLimits, md \in {"own", "shared"}}
    /\ backend = {}
    /\ shared = args.params
    /\ gens = <<>>
    /\ held \in {JInt(n) : n \in HeldCounts}
    /\ call = NoCall
    /\ session = NewSession
    /\ scope = <<>>
    /\ threads = <<>>

SpecFin == InitFin /\ [][NextPag]_vars /\ WF_vars(Create) /\ WF_vars(Pull)

C18_Bound ==
    \A g \in DOMAIN gens : Len(gens[g].fetches) <= (held.v \div gens[g].limit) + 1

\* C18: against a server that holds N records and honours limit and offset,
\* a paginate_offset run with max_pages unset issues at most
\* floor(N / limit) + 1 page requests, and every run that was started comes
\* to its end, whether its requests succeed or fail.
C18_Finite ==
    /\ []C18_Bound
    /\ \A g \in Runs : (Len(gens) >= g) ~> (Len(gens) >= g /\ gens[g].pc = "done")

\* C18 witness: a run over 3 records with limit 1 that ended after its
\* fourth request, all four answered
C18_Witness ==
    \E g \in DOMAIN gens :
        /\ gens[g].pc = "done" /\ held = JInt(3) /\ gens[g].limit = 1
        /\ Len(gens[g].fetches) = 4 /\ NoneRaised(gens[g].fetches)
        /\ Len(gens[g].pages) = 3

(***************************************************************************)
(* Two threads that share one connector and call _rate_limit_check with no *)
(* lock. A thread runs the method statement by statement; another thread   *)
(* may run between any two of them, and between the evaluation of the list *)
(* comprehension of lines 92-95 and the assignment of its result. Each     *)
(* thread has its locals: now, the list the comprehension built (pruned),  *)
(* and the time its sleep ends (wake). pc is the line it stands at.        *)
(***************************************************************************)
Threads == {1, 2}

IdleThread == [pc |-> "idle", now |-> 0, pruned |-> <<>>, wake |-> 0, raised |-> FALSE]

\* The periods the threads run under
ThrPeriods == {2}

InitThr ==
    /\ config \in [rate_limit_calls : 1..MaxQuota, rate_limit_period : ThrPeriods,
                   max_retries : {3}]
    /\ time = 0
    /\ calls = <<>>
    /\ accepted = <<>>
    /\ slept = 0
    /\ sent = <<>>
    /\ req = NoReq
    /\ args = NoArgs
    /\ backend = {}
    /\ shared = EmptyParams
    /\ gens = <<>>
    /\ held = None
    /\ session = NewSession
    /\ scope = <<>>
    /\ call = [fn |-> "_rate_limit_check", started |-> 0, overlapped |-> FALSE]
    /\ threads = [t \in Threads |-> IdleThread]

Others == <<held, session, scope, config, slept, sent, req, args, backend, shared, gens>>

\* Thread t moves to line pc with its locals changed as the record says.
Goes(t, th) == threads' = [threads EXCEPT ![t] = th]

\* Thread t calls _rate_limit_check; line 90: now = time.time()
Line90(t) ==
    /\ threads[t].pc = "idle"
    /\ call.started < MaxStarts
    /\ call' = [call EXCEPT !.started = @ + 1,
                            !.overlapped = @ \/ \E u \in Threads : threads[u].pc # "idle"]
    /\ Goes(t, [IdleThread EXCEPT !.pc = "92", !.now = time])
    /\ UNCHANGED <<time, calls, accepted, Others>>

\* Lines 92-95, the comprehension: the list is read and filtered.
Line92(t) ==
    /\ threads[t].pc = "92"
    /\ Goes(t, [threads[t] EXCEPT !.pc = "92=",
                                  !.pruned = Prune(calls, threads[t].now,
                                                   config.rate_limit_period)])
    /\ UNCHANGED <<time, calls, accepted, call, Others>>

\* Line 92, the assignment: self._rate_limit_calls = the list built
Line92Store(t) ==
    /\ threads[t].pc = "92="
    /\ calls' = threads[t].pruned
    /\ Goes(t, [threads[t] EXCEPT !.pc = "98"])
    /\ UNCHANGED <<time, accepted, call, Others>>

\* Line 98: the limit check, on the list as it is now
Line98(t) ==
    /\ threads[t].pc = "98"
    /\ Goes(t, [threads[t] EXCEPT
                   !.pc = IF LimitHit(calls, config.rate_limit_calls) THEN "99" ELSE "106"])
    /\ UNCHANGED <<time, calls, accepted, call, Others>>

\* Lines 99-103: min() of the list as it is now, which raises ValueError
\* when another thread has emptied the list since line 98; the sleep starts.
Line99(t) ==
    /\ threads[t].pc = "99"
    /\ Goes(t, IF calls = <<>>
               THEN [threads[t] EXCEPT !.pc = "idle", !.raised = TRUE]
               ELSE IF SleepTime(calls, threads[t].now, config.rate_limit_period) > 0
               THEN [threads[t] EXCEPT
                        !.pc = "103",
                        !.wake = time + SleepTime(calls, threads[t].now,
                                                  config.rate_limit_period)]
               ELSE [threads[t] EXCEPT !.pc = "106"])
    /\ UNCHANGED <<time, calls, accepted, call, Others>>

\* Line 103: time.sleep returns once the time asked for has passed.
Line103(t) ==
    /\ threads[t].pc = "103"
    /\ time >= threads[t].wake
    /\ Goes(t, [threads[t] EXCEPT !.pc = "106"])
    /\ UNCHANGED <<time, calls, accepted, call, Others>>

\* Line 106: self._rate_limit_calls.append(time.time()), and the call returns.
Line106(t) ==
    /\ threads[t].pc = "106"
    /\ calls' = Append(calls, time)
    /\ accepted' = Append(accepted, time)
    /\ Goes(t, [threads[t] EXCEPT !.pc = "idle"])
    /\ UNCHANGED <<time, call, Others>>

\* The clock advances.
Clock ==
    /\ time < MaxWindow
    /\ time' = time + 1
    /\ UNCHANGED <<calls, accepted, call, threads, Others>>

Step(t) ==
    \/ Line90(t) \/ Line92(t) \/ Line92Store(t) \/ Line98(t) \/ Line99(t)
    \/ Line103(t) \/ Line106(t)

NextThr == Clock \/ \E t \in Threads : Step(t)

SpecThr == InitThr /\ [][NextThr]_vars

\* How often x occurs in the sequence q
Count(q, x) == Cardinality({i \in DOMAIN q : q[i] = x})

\* More than rate_limit_calls timestamps were recorded in one window.
Overrun ==
    \E e \in 0..(MaxTime + MaxWindow) :
        InWindow(accepted, e, config.rate_limit_period) > config.rate_limit_calls

\* A recorded timestamp that is still inside the window of every call made
\* so far is no longer in the list.
Lost ==
    \E x \in Range(accepted) :
        /\ time - x < config.rate_limit_period
        /\ Count(calls, x) < Count(accepted, x)

\* C19: the bound rests on sequential use: as long as no _rate_limit_check
\* call has started while another was running, no window holds more than
\* rate_limit_calls recorded timestamps, no recorded timestamp is lost and no
\* call raises; two threads that overlap can break it (the witness).
C19_SequentialOnly ==
    (Overrun \/ Lost \/ \E t \in Threads : threads[t].raised) => call.overlapped

\* C19 witness: two calls overlapped; one thread's pruned list overwrote the
\* other's append, and more calls than the quota were recorded in one window.
C19_Witness ==
    call.overlapped /\ Overrun /\ Lost /\ Len(accepted) = config.rate_limit_calls + 1

(***************************************************************************)
(* Two generators of one connector, pulled by one thread in any order: the *)
(* second is created while the first is still running.                     *)
(***************************************************************************)
InitMix ==
    /\ config = [rate_limit_calls |-> 2, rate_limit_period |-> 3, max_retries |-> 3]
    /\ time = 0
    /\ calls = <<>>
    /\ accepted = <<>>
    /\ slept = 0
    /\ sent = <<>>
    /\ req = NoReq
    /\ args \in {a \in OffsetArgs \cup CursorArgs : a.max_pages = None}
    /\ backend = {}
    /\ shared = args.params
    /\ gens = <<>>
    /\ Aside

\* paginate_offset(...) or paginate_cursor(...) is called, whatever the
\* generators created before are doing.
Start ==
    /\ Len(gens) + 1 \in Runs
    /\ gens' = Append(gens, NewGen(args))
    /\ UNCHANGED <<held, call, session, scope, threads, config, time, calls, accepted,
                   slept, sent, req, args, backend, shared>>

NextMix == Start \/ Pull

SpecMix == InitMix /\ [][NextMix]_vars

\* The parameters request i of a run made alone carries: the caller's, with
\* limit and offset (i-1) * limit, or with the cursor of the run's previous
\* response
C20_Alone(gn, i) ==
    IF gn.kind = "offset" THEN C16_Request(gn, i)
    ELSE /\ gn.fetches[i].params.other = args.params.other
         /\ gn.fetches[i].params.cursor =
                IF i = 1 THEN args.params.cursor ELSE NextOf(gn.fetches[i - 1])

\* C20: two generators of one connector pulled in any interleaved order each
\* issue the requests they would issue alone, and (their arguments and the
\* server's answers being the same) yield the same pages, whether or not
\* they were given the same params mapping.
C20_RunsIndependent ==
    /\ \A g \in DOMAIN gens : \A i \in DOMAIN gens[g].fetches : C20_Alone(gens[g], i)
    /\ C9_Idempotent

====
